---- MODULE Spec2Model ----
(***************************************************************************)
(* Model of src/index.tsx: the browser subtitle generator.                 *)
(*                                                                         *)
(* State: the module-level variables of index.tsx (ai,                     *)
(* isGenerationCancelled, generatedVttContent, currentFile), the DOM       *)
(* properties the code writes (hidden classes, disabled flags, the video   *)
(* source, the subtitle track, the status text) and one record per         *)
(* activation of the async function generateSubtitles.                     *)
(*                                                                         *)
(* Times are integers in milliseconds (the source's numbers are seconds as *)
(* floats; 65.4 s is 65400 here).  Strings are sequences of one-character  *)
(* strings so that they can be indexed.                                    *)
(***************************************************************************)
EXTENDS Integers, Sequences, FiniteSets, TLC

VARIABLES
    aiReady,                \* ai has been assigned by initializeAi
    isGenerationCancelled,
    generatedVttContent,
    currentFile,
    dom,                    \* DOM properties written by the code
    statusText,
    runs,                   \* activations of generateSubtitles
    evaluation              \* a call of one of the pure functions

vars == <<aiReady, isGenerationCancelled, generatedVttContent, currentFile,
          dom, statusText, runs, evaluation>>

-----------------------------------------------------------------------------
(* Bounds of the model. *)

MaxChunks == 3          \* longest audio is MaxChunks windows
MaxRuns == 2            \* activations of generateSubtitles that can coexist
MaxSampleNum == 8       \* samples are n/d for |n| <= MaxSampleNum, d in 1, 2, 4
MaxSeconds == 130       \* remaining times go up to MaxSeconds seconds

(* Program constants. *)

CHUNK_SECONDS == 30
MsPerSecond == 1000

Min(a, b) == IF a < b THEN a ELSE b
Max(a, b) == IF a > b THEN a ELSE b

-----------------------------------------------------------------------------
(* Strings. *)

Digits == <<"0", "1", "2", "3", "4", "5", "6", "7", "8", "9">>

RECURSIVE DecimalString(_)
\* String(n) for an integer n >= 0
DecimalString(n) ==
    IF n < 10 THEN <<Digits[n + 1]>>
    ELSE DecimalString(n \div 10) \o <<Digits[(n % 10) + 1]>>

RECURSIVE PadStart(_, _, _)
\* s.padStart(width, fill)
PadStart(s, width, fill) ==
    IF Len(s) >= width THEN s ELSE PadStart(<<fill>> \o s, width, fill)

\* the characters String.prototype.trim strips (WhiteSpace and LineTerminator).
\* A string of this module can hold the first nine: space, line feed, tab,
\* carriage return, form feed, and, written as the characters themselves,
\* U+000B, U+00A0, U+1680 and U+FEFF.  The others (U+2000 to U+200A, U+2028,
\* U+2029, U+202F, U+205F, U+3000) cannot be written in a string here, so no
\* text of the model holds them.
IsWhiteSpace(c) ==
    c \in {" ", "\n", "\t", "\r", "\f", "", " ", " ", "﻿"}

RECURSIVE TrimStart(_)
TrimStart(s) ==
    IF s # <<>> /\ IsWhiteSpace(Head(s)) THEN TrimStart(Tail(s)) ELSE s

RECURSIVE TrimEnd(_)
TrimEnd(s) ==
    IF s # <<>> /\ IsWhiteSpace(s[Len(s)])
    THEN TrimEnd(SubSeq(s, 1, Len(s) - 1)) ELSE s

\* s.trim()
Trim(s) == TrimEnd(TrimStart(s))

\* s.replace(/\n/g, ' ')
ReplaceNewlines(s) == [k \in 1..Len(s) |-> IF s[k] = "\n" THEN " " ELSE s[k]]

-----------------------------------------------------------------------------
(* Dates: a Date is its time value, milliseconds since the epoch.  The time *)
(* zone offset is taken to be a whole number of minutes, so the seconds and *)
(* milliseconds of local time and of UTC agree.                             *)

\* date.setSeconds(sec): the seconds field becomes ToIntegerOrInfinity(sec),
\* the milliseconds field is kept (no ms argument is passed)
DateSetSeconds(t, secMs) ==
    (t - (t % 60000)) + ((secMs \div MsPerSecond) * MsPerSecond) + (t % MsPerSecond)

\* date.toISOString().substr(11, 12): "HH:MM:SS.mmm"
ISOTimeOfDay(t) ==
    LET tod == t % 86400000
        hh == tod \div 3600000
        mm == (tod \div 60000) % 60
        ss == (tod \div 1000) % 60
        ms == tod % 1000
    IN  PadStart(DecimalString(hh), 2, "0") \o <<":">> \o
        PadStart(DecimalString(mm), 2, "0") \o <<":">> \o
        PadStart(DecimalString(ss), 2, "0") \o <<".">> \o
        PadStart(DecimalString(ms), 3, "0")

\* formatTimeVTT(seconds), seconds given in milliseconds
formatTimeVTT(secMs) == ISOTimeOfDay(DateSetSeconds(0, secMs))

\* A number of seconds as the quotient num/den (den > 0), or one of the
\* non-finite values of a JavaScript number
Finite(num, den) == [kind |-> "finite", num |-> num, den |-> den]
NaN == [kind |-> "NaN", num |-> 0, den |-> 1]
PosInfinity == [kind |-> "Infinity", num |-> 1, den |-> 1]
NegInfinity == [kind |-> "-Infinity", num |-> -1, den |-> 1]

\* the quotient a/b (b > 0) truncated towards zero, as x | 0 does
Truncate(a, b) == IF a >= 0 THEN a \div b ELSE -((-a) \div b)

\* lines 163-164 without the clamp of line 163
QuantizeSampleUnclamped(sample) ==
    IF sample.den + 2 * sample.num < 0
    THEN Truncate(sample.num * 32768, sample.den)
    ELSE Truncate(sample.num * 32767, sample.den)

\* lines 163-164 of audioBufferToWavBase64 for the sample num/den: the clamp
\* to [-1, 1], then (0.5 + sample < 0 ? sample * 32768 : sample * 32767) | 0
QuantizeSample(sample) ==
    LET clamped == Max(-sample.den, Min(sample.den, sample.num))
    IN  IF sample.den + 2 * clamped < 0
        THEN Truncate(clamped * 32768, sample.den)
        ELSE Truncate(clamped * 32767, sample.den)

\* view.setInt16 (line 165): the value modulo 2^16, read back as signed
SetInt16(v) == ((v + 32768) % 65536) - 32768

\* formatRemainingTime with the minutes rounded instead of floored
formatRemainingTimeRoundsMinutes(seconds) ==
    IF seconds.kind # "finite" \/ seconds.num < 0
    THEN <<"-", "-", ":", "-", "-">>
    ELSE LET perMinute == 60 * seconds.den
             minutes == (2 * seconds.num + perMinute) \div (2 * perMinute)
             remainingSeconds ==
                 (2 * (seconds.num % perMinute) + seconds.den) \div (2 * seconds.den)
         IN  PadStart(DecimalString(minutes), 2, "0") \o <<":">> \o
             PadStart(DecimalString(remainingSeconds), 2, "0")

\* formatRemainingTime(seconds)
formatRemainingTime(seconds) ==
    IF seconds.kind # "finite" \/ seconds.num < 0
    THEN <<"-", "-", ":", "-", "-">>
    ELSE LET perMinute == 60 * seconds.den
             minutes == seconds.num \div perMinute
             \* Math.round(seconds % 60): floor(x + 1/2)
             remainingSeconds ==
                 (2 * (seconds.num % perMinute) + seconds.den) \div (2 * seconds.den)
         IN  PadStart(DecimalString(minutes), 2, "0") \o <<":">> \o
             PadStart(DecimalString(remainingSeconds), 2, "0")

RECURSIVE LastIndexOf(_, _)
\* s.lastIndexOf(c), 0-based, -1 when c does not occur
LastIndexOf(s, c) ==
    IF s = <<>> THEN -1
    ELSE IF s[Len(s)] = c THEN Len(s) - 1
    ELSE LastIndexOf(SubSeq(s, 1, Len(s) - 1), c)

\* s.substring(0, end): a negative end counts as 0, one beyond the end as length
Substring0(s, end) == SubSeq(s, 1, Max(0, Min(end, Len(s))))

\* the download name computed by downloadVttFile
DownloadName(originalFileName) ==
    LET dot == LastIndexOf(originalFileName, ".")
        \* dot || length: 0 is the only falsy index
        end == IF dot # 0 THEN dot ELSE Len(originalFileName)
    IN  Substring0(originalFileName, end) \o <<".", "v", "t", "t">>

-----------------------------------------------------------------------------
(* Inputs. *)

\* lengths of the last chunk, in milliseconds
Remainders == {400, 5400, CHUNK_SECONDS * MsPerSecond}

\* audio durations, in milliseconds
Durations ==
    {0} \cup {k * CHUNK_SECONDS * MsPerSecond + r : k \in 0..(MaxChunks - 1), r \in Remainders}

DefaultName == <<"a", ".", "m", "p", "4">>

Names == { DefaultName, <<"c", "l", "i", "p">>, <<".", "m", "k", "v">> }

NoFile == [null |-> TRUE, name |-> <<>>, decodable |-> FALSE, duration |-> 0]

\* a file: its name and what decodeAudioData makes of its bytes
File(name, decodable, duration) ==
    [null |-> FALSE, name |-> name, decodable |-> decodable, duration |-> duration]

\* the files uploaded: one of every duration, one that does not decode, and
\* one short file of every name
Files ==
    {File(DefaultName, TRUE, d) : d \in Durations}
    \cup {File(DefaultName, FALSE, 0)}
    \cup {File(n, TRUE, 5400) : n \in Names}

\* texts the remote model returns
Responses ==
    { <<>>, <<" ", "\f", "\n">>, <<"a">>, <<"\n", "a", "\r", "\n", "b", " ">> }

\* sample values: below -1, in [-1, 1] and above 1
Samples ==
    {Finite(n, d) : n \in (-MaxSampleNum)..MaxSampleNum, d \in {1, 2, 4}}

\* arguments of formatRemainingTime: the non-finite ones, whole seconds,
\* tenths of seconds, and whole minutes around 100
RemainingTimes ==
    {NaN, PosInfinity, NegInfinity}
    \cup {Finite(n, 1) : n \in (-MaxSeconds)..MaxSeconds}
    \cup {Finite(n, 10) : n \in (-MaxSeconds)..(10 * MaxSeconds)}
    \cup {Finite(60 * m, 1) : m \in {99, 100, 101}}

\* Date.now() - generationStartTime at a chunk boundary, in milliseconds
ElapsedMs == {-5000, 0, 59600, 125000}

-----------------------------------------------------------------------------
(* The caption document: the text "WEBVTT\n\n" followed by one block per    *)
(* cue, kept as the sequence of its cues.                                   *)

NullVtt == [null |-> TRUE, cues |-> <<>>]
Vtt(cues) == [null |-> FALSE, cues |-> cues]

VttHeader == <<"W", "E", "B", "V", "T", "T", "\n", "\n">>

Arrow == <<" ", "-", "-", ">", " ">>

\* the block appended for one cue (line 245)
CueBlock(cue) ==
    cue.start \o Arrow \o cue.end \o <<"\n">> \o cue.text \o <<"\n", "\n">>

RECURSIVE VttLength(_)
\* vttContent.length
VttLength(cues) ==
    IF cues = <<>> THEN Len(VttHeader)
    ELSE VttLength(SubSeq(cues, 1, Len(cues) - 1)) + Len(CueBlock(cues[Len(cues)]))

\* hasSubtitles with the comparison of line 285 turned round
hasSubtitlesFlipped(vtt) == ~vtt.null /\ VttLength(vtt.cues) < Len(VttHeader)

\* hasSubtitles (line 285)
hasSubtitles(vtt) == ~vtt.null /\ VttLength(vtt.cues) > Len(VttHeader)

-----------------------------------------------------------------------------
(* Status messages: the message, and for the progress message its numbers. *)

Status(msg) == [msg |-> msg, chunk |-> 0, count |-> 0, etr |-> <<>>]
Progress(chunk, count, etr) ==
    [msg |-> "generating", chunk |-> chunk, count |-> count, etr |-> etr]

-----------------------------------------------------------------------------
(* The DOM.  The elements carry the properties the code writes.  A click   *)
(* reaches a button that is enabled, is not hidden and whose controls      *)
(* group is not hidden; a change event reaches an input that is enabled.   *)

InitialDom ==
    [ videoSrc |-> FALSE,
      tracks |-> <<>>,
      uploadContainerHidden |-> FALSE,
      videoContainerHidden |-> TRUE,
      postGenerationControlsHidden |-> TRUE,
      generationControlsHidden |-> FALSE,
      generateButtonHidden |-> FALSE,
      cancelButtonHidden |-> TRUE,
      generateButtonDisabled |-> TRUE,
      cancelButtonDisabled |-> FALSE,
      videoUploadInputDisabled |-> FALSE,
      download |-> <<>> ]

CanClickGenerate ==
    /\ ~dom.generationControlsHidden
    /\ ~dom.generateButtonHidden
    /\ ~dom.generateButtonDisabled

CanClickCancel ==
    /\ ~dom.generationControlsHidden
    /\ ~dom.cancelButtonHidden
    /\ ~dom.cancelButtonDisabled

CanClickReset == ~dom.postGenerationControlsHidden

CanClickDownload == ~dom.postGenerationControlsHidden

CanChangeUpload == ~dom.videoUploadInputDisabled

-----------------------------------------------------------------------------
(* Activations of generateSubtitles.  pc is where the activation is        *)
(* suspended: "decode" at the awaits of lines 193-194, "call" at the await *)
(* of line 238.  file, audioDuration, i and vttContent are the locals of   *)
(* transcribeAudio.  The remaining fields record what has happened to the  *)
(* activation: calls, the remote calls it has started; responses, the      *)
(* texts they returned; prevEnd, the endTime of the chunk before the       *)
(* current one; cancelCalls, the value of calls when the cancel flag was   *)
(* set during it (-1: not set); failed, an await has thrown; skipped, the  *)
(* loop was left with chunks remaining; outcome, the branch its end took.  *)

RunIds == 1..MaxRuns

IdleRun ==
    [ pc |-> "idle", file |-> NoFile, audioDuration |-> 0, i |-> 0,
      vttContent |-> <<>>, calls |-> 0, responses |-> <<>>, prevEnd |-> 0,
      cancelCalls |-> -1,
      failed |-> FALSE, skipped |-> FALSE, outcome |-> "none" ]

Active(r) == runs[r].pc \in {"decode", "call"}

\* chunkCount (line 199): Math.ceil(audioDuration / CHUNK_SECONDS)
chunkCount(audioDuration) ==
    (audioDuration + CHUNK_SECONDS * MsPerSecond - 1) \div (CHUNK_SECONDS * MsPerSecond)

\* currentChunk (line 206)
currentChunk(i) == (i \div CHUNK_SECONDS) + 1

\* endTime without the Math.min of line 205
endTimeUnclamped(i, audioDuration) == (i + CHUNK_SECONDS) * MsPerSecond

\* endTime (line 205), in milliseconds
endTime(i, audioDuration) == Min((i + CHUNK_SECONDS) * MsPerSecond, audioDuration)

\* a loop step of two windows
NextStartSkips(i) == i + 2 * CHUNK_SECONDS

\* the step of the for loop (line 201): i += CHUNK_SECONDS
NextStart(i) == i + CHUNK_SECONDS

\* a loop that does not poll the cancel flag
CancelNeverPolled == FALSE

\* the poll of the cancel flag at the top of the loop body (line 202)
CancelPolled == isGenerationCancelled

\* a catch that keeps the cues accumulated before the throw
CaughtVttKeepsCues(rec) == Vtt(rec.vttContent)

\* vttContent of generateSubtitles when the await of line 271 throws: the
\* assignment never happens and it keeps the null of line 268
CaughtVtt(rec) == NullVtt

\* etrSeconds (lines 209-212) for the elapsed milliseconds
etrSeconds(elapsedMs, chunk, count) ==
    Finite(elapsedMs * (count - (chunk - 1)), MsPerSecond * (chunk - 1))

\* subtitleText (line 243)
subtitleText(text) == ReplaceNewlines(Trim(text))

\* the cue appended for the chunk at i (lines 244-246)
AppendCue(cues, i, audioDuration, text) ==
    IF subtitleText(text) # <<>>
    THEN Append(cues, [ start |-> formatTimeVTT(i * MsPerSecond),
                        end |-> formatTimeVTT(endTime(i, audioDuration)),
                        text |-> subtitleText(text) ])
    ELSE cues

\* resetApp without lines 52-53: the subtitle tracks stay
ResetDomKeepsTracks(d) ==
    [d EXCEPT !.videoSrc = FALSE,
              !.uploadContainerHidden = FALSE,
              !.videoContainerHidden = TRUE,
              !.postGenerationControlsHidden = TRUE,
              !.generationControlsHidden = FALSE,
              !.generateButtonHidden = FALSE,
              !.cancelButtonHidden = TRUE,
              !.generateButtonDisabled = TRUE,
              !.videoUploadInputDisabled = FALSE]

\* resetApp (lines 47-71) applied to the DOM
ResetDom(d) ==
    [d EXCEPT !.videoSrc = FALSE,
              !.tracks = <<>>,
              !.uploadContainerHidden = FALSE,
              !.videoContainerHidden = TRUE,
              !.postGenerationControlsHidden = TRUE,
              !.generationControlsHidden = FALSE,
              !.generateButtonHidden = FALSE,
              !.cancelButtonHidden = TRUE,
              !.generateButtonDisabled = TRUE,
              !.videoUploadInputDisabled = FALSE]

\* lines 279-281 and 311-313 without the last: the upload input stays disabled
BackToGenerateUploadDisabled(d) ==
    [d EXCEPT !.generateButtonHidden = FALSE,
              !.cancelButtonHidden = TRUE]

\* lines 279-281 and 311-313: back to the generate button
BackToGenerate(d) ==
    [d EXCEPT !.generateButtonHidden = FALSE,
              !.cancelButtonHidden = TRUE,
              !.videoUploadInputDisabled = FALSE]

\* lines 261-264 without line 261: the generate button stays
StartDomGenerateStays(d) ==
    [d EXCEPT !.cancelButtonHidden = FALSE,
              !.cancelButtonDisabled = FALSE,
              !.videoUploadInputDisabled = TRUE]

\* lines 261-264
StartDom(d) ==
    [d EXCEPT !.generateButtonHidden = TRUE,
              !.cancelButtonHidden = FALSE,
              !.cancelButtonDisabled = FALSE,
              !.videoUploadInputDisabled = TRUE]

\* lines 288-308: the track replaces the existing ones, the controls change
CompletedDom(d, vtt) ==
    [d EXCEPT !.tracks = <<vtt>>,
              !.generationControlsHidden = TRUE,
              !.postGenerationControlsHidden = FALSE]

\* line 310 with the failure message in both cases
NoSubtitlesStatusOneMessage(vtt) == Status("errorOrCancelled")

\* the status of line 310
NoSubtitlesStatus(vtt) ==
    IF ~vtt.null THEN Status("noCaptions") ELSE Status("errorOrCancelled")

\* generateSubtitles from line 277 on, for the activation r whose record is
\* rec, with vtt the value of its vttContent (null after the catch), cancelled
\* the cancel flag and d the DOM at that point
FinishRun(r, rec, vtt, cancelled, d) ==
    IF cancelled
    THEN /\ statusText' = Status("cancelled")
         /\ dom' = BackToGenerate(d)
         /\ generatedVttContent' = generatedVttContent
         /\ runs' = [runs EXCEPT ![r] = [rec EXCEPT !.pc = "done", !.outcome = "Cancelled"]]
    ELSE IF hasSubtitles(vtt)
    THEN /\ statusText' = Status("completed")
         /\ dom' = CompletedDom(d, vtt)
         /\ generatedVttContent' = vtt
         /\ runs' = [runs EXCEPT ![r] = [rec EXCEPT !.pc = "done", !.outcome = "Completed"]]
    ELSE /\ statusText' = NoSubtitlesStatus(vtt)
         /\ dom' = BackToGenerate(d)
         /\ generatedVttContent' = generatedVttContent
         /\ runs' = [runs EXCEPT ![r] =
                [rec EXCEPT !.pc = "done",
                            !.outcome = IF ~vtt.null THEN "Empty" ELSE "Failed"]]

\* the for loop of transcribeAudio from its test (line 201) to the next await
\* or to the end of generateSubtitles, for the activation r whose record is rec
LoopFrom(r, rec) ==
    IF rec.i * MsPerSecond < rec.audioDuration
    THEN IF CancelPolled
         THEN FinishRun(r, [rec EXCEPT !.skipped = TRUE], Vtt(rec.vttContent),
                        isGenerationCancelled, dom)
         ELSE /\ \E elapsed \in (IF currentChunk(rec.i) > 1 THEN ElapsedMs ELSE {0}) :
                    statusText' =
                        Progress(currentChunk(rec.i), chunkCount(rec.audioDuration),
                                 IF currentChunk(rec.i) > 1
                                 THEN formatRemainingTime(
                                        etrSeconds(elapsed, currentChunk(rec.i),
                                                   chunkCount(rec.audioDuration)))
                                 ELSE <<>>)
              /\ runs' = [runs EXCEPT ![r] =
                            [rec EXCEPT !.pc = "call", !.calls = rec.calls + 1]]
              /\ UNCHANGED <<dom, generatedVttContent>>
    ELSE FinishRun(r, rec, Vtt(rec.vttContent), isGenerationCancelled, dom)

-----------------------------------------------------------------------------
(* Init: the page after the DOMContentLoaded listener (lines 344-357); the  *)
(* page starts in the state resetApp restores.                             *)

NoEvaluation == [fn |-> "none", arg |-> NaN, done |-> FALSE, result |-> <<>>]

PageInit ==
    /\ aiReady \in BOOLEAN
    /\ isGenerationCancelled = FALSE
    /\ generatedVttContent = NullVtt
    /\ currentFile = NoFile
    /\ dom = InitialDom
    /\ statusText = IF aiReady THEN Status("") ELSE Status("aiInitFailed")
    /\ runs = [r \in RunIds |-> IdleRun]

Init == PageInit /\ evaluation = NoEvaluation

-----------------------------------------------------------------------------
(* Event handlers. *)

\* change on the upload input with a file chosen: handleVideoUpload
handleVideoUpload(file) ==
    /\ CanChangeUpload
    /\ currentFile' = file
    /\ generatedVttContent' = NullVtt
    /\ dom' = [ResetDom(dom) EXCEPT !.videoSrc = TRUE,
                                    !.uploadContainerHidden = TRUE,
                                    !.videoContainerHidden = FALSE,
                                    !.generateButtonDisabled = FALSE]
    /\ statusText' = Status("videoLoaded")
    /\ UNCHANGED <<evaluation, aiReady, isGenerationCancelled, runs>>

\* resetApp without line 48: the caption document stays
resetAppKeepsVtt ==
    /\ CanClickReset
    /\ dom' = ResetDom(dom)
    /\ currentFile' = NoFile
    /\ statusText' = Status("")
    /\ UNCHANGED <<evaluation, aiReady, isGenerationCancelled, runs,
                   generatedVttContent>>

\* click on the reset button: resetApp
resetApp ==
    /\ CanClickReset
    /\ dom' = ResetDom(dom)
    /\ generatedVttContent' = NullVtt
    /\ currentFile' = NoFile
    /\ statusText' = Status("")
    /\ UNCHANGED <<evaluation, aiReady, isGenerationCancelled, runs>>

\* click on the generate button with ai missing: lines 255-258
generateSubtitlesNoAi ==
    /\ CanClickGenerate
    /\ ~aiReady
    /\ statusText' = Status("aiNotInitialized")
    /\ UNCHANGED <<evaluation, aiReady, isGenerationCancelled, generatedVttContent,
                   currentFile, dom, runs>>

\* click on the generate button: generateSubtitles up to the first await of
\* transcribeAudio (line 193), in the first free activation
generateSubtitles(r) ==
    /\ CanClickGenerate
    /\ aiReady
    /\ ~Active(r)
    /\ \A q \in RunIds : q < r => Active(q)
    /\ isGenerationCancelled' = FALSE
    /\ IF currentFile.null
       THEN \* line 188 throws; the catch and the rest follow
            FinishRun(r, [IdleRun EXCEPT !.failed = TRUE],
                      CaughtVtt(IdleRun), FALSE, StartDom(dom))
       ELSE /\ runs' = [runs EXCEPT ![r] = [IdleRun EXCEPT !.pc = "decode",
                                                            !.file = currentFile]]
            /\ dom' = StartDom(dom)
            /\ statusText' = Status("decoding")
            /\ UNCHANGED generatedVttContent
    /\ UNCHANGED <<evaluation, aiReady, currentFile>>

\* the awaits of lines 193-194 throw
DecodeFail(r) ==
    /\ runs[r].pc = "decode"
    /\ ~runs[r].file.decodable
    /\ FinishRun(r, [runs[r] EXCEPT !.failed = TRUE],
                 CaughtVtt(runs[r]), isGenerationCancelled, dom)
    /\ UNCHANGED <<evaluation, aiReady, isGenerationCancelled, currentFile>>

\* the awaits of lines 193-194 return: lines 196-199 and the loop
DecodeDone(r) ==
    /\ runs[r].pc = "decode"
    /\ runs[r].file.decodable
    /\ LoopFrom(r, [runs[r] EXCEPT !.audioDuration = runs[r].file.duration,
                                   !.i = 0,
                                   !.vttContent = <<>>])
    /\ UNCHANGED <<evaluation, aiReady, isGenerationCancelled, currentFile>>

\* the await of line 238 returns text: lines 243-246, i += CHUNK_SECONDS and
\* the loop
CallReturn(r, text) ==
    /\ runs[r].pc = "call"
    /\ LoopFrom(r, [runs[r] EXCEPT
            !.vttContent = AppendCue(runs[r].vttContent, runs[r].i,
                                     runs[r].audioDuration, text),
            !.i = NextStart(runs[r].i),
            !.responses = Append(runs[r].responses, text),
            !.prevEnd = endTime(runs[r].i, runs[r].audioDuration)])
    /\ UNCHANGED <<evaluation, aiReady, isGenerationCancelled, currentFile>>

\* the await of line 238 throws
CallFail(r) ==
    /\ runs[r].pc = "call"
    /\ FinishRun(r, [runs[r] EXCEPT !.failed = TRUE],
                 CaughtVtt(runs[r]), isGenerationCancelled, dom)
    /\ UNCHANGED <<evaluation, aiReady, isGenerationCancelled, currentFile>>

\* click on the cancel button (lines 350-354)
cancelClick ==
    /\ CanClickCancel
    /\ isGenerationCancelled' = TRUE
    /\ dom' = [dom EXCEPT !.cancelButtonDisabled = TRUE]
    /\ statusText' = Status("cancelling")
    /\ runs' = [r \in RunIds |->
                  IF Active(r) /\ runs[r].cancelCalls = -1
                  THEN [runs[r] EXCEPT !.cancelCalls = runs[r].calls]
                  ELSE runs[r]]
    /\ UNCHANGED <<evaluation, aiReady, generatedVttContent, currentFile>>

\* click on the download button: downloadVttFile
downloadVttFile ==
    /\ CanClickDownload
    /\ IF generatedVttContent.null
       THEN /\ statusText' = Status("nothingToDownload")
            /\ UNCHANGED dom
       ELSE /\ dom' = [dom EXCEPT !.download =
                        DownloadName(IF currentFile.null
                                     THEN <<"v", "i", "d", "e", "o">>
                                     ELSE currentFile.name)]
            /\ UNCHANGED statusText
    /\ UNCHANGED <<evaluation, aiReady, isGenerationCancelled, generatedVttContent,
                   currentFile, runs>>

Next ==
    \/ \E file \in Files : handleVideoUpload(file)
    \/ resetApp
    \/ generateSubtitlesNoAi
    \/ \E r \in RunIds : generateSubtitles(r)
    \/ \E r \in RunIds : DecodeFail(r)
    \/ \E r \in RunIds : DecodeDone(r)
    \/ \E r \in RunIds, text \in Responses : CallReturn(r, text)
    \/ \E r \in RunIds : CallFail(r)
    \/ cancelClick
    \/ downloadVttFile

Spec == Init /\ [][Next]_vars

-----------------------------------------------------------------------------
(* The pure functions on their own: the page stays as loaded, one call of  *)
(* a function is made on an argument drawn from the inputs.                *)

page == <<aiReady, isGenerationCancelled, generatedVttContent, currentFile,
          dom, statusText, runs>>

PureInit ==
    /\ PageInit
    /\ aiReady
    /\ evaluation \in
          {[fn |-> "encodeSample", arg |-> x, done |-> FALSE, result |-> <<>>] :
              x \in Samples}
          \cup {[fn |-> "formatRemainingTime", arg |-> x, done |-> FALSE,
                 result |-> <<>>] : x \in RemainingTimes}

\* one sample through lines 163-165: the quantized value and the value stored
EncodeSample ==
    /\ evaluation.fn = "encodeSample"
    /\ ~evaluation.done
    /\ evaluation' =
          [evaluation EXCEPT
              !.done = TRUE,
              !.result = <<QuantizeSample(evaluation.arg),
                           SetInt16(QuantizeSample(evaluation.arg))>>]
    /\ UNCHANGED page

\* a call of formatRemainingTime
FormatRemainingTime ==
    /\ evaluation.fn = "formatRemainingTime"
    /\ ~evaluation.done
    /\ evaluation' =
          [evaluation EXCEPT !.done = TRUE,
                             !.result = formatRemainingTime(evaluation.arg)]
    /\ UNCHANGED page

PureNext == EncodeSample \/ FormatRemainingTime

PureSpec == PureInit /\ [][PureNext]_vars

\* a pending await of a run settles: the decode or the remote call returns or
\* throws
AwaitSettles ==
    \E r \in RunIds :
        \/ DecodeFail(r)
        \/ DecodeDone(r)
        \/ CallFail(r)
        \/ \E text \in Responses : CallReturn(r, text)

\* Spec when every decode and every remote call eventually returns or throws
FairSpec == Spec /\ WF_vars(AwaitSettles)

-----------------------------------------------------------------------------
(* Properties. *)

\* the window, in milliseconds
WindowMs == CHUNK_SECONDS * MsPerSecond

\* the activation r ends in this step
JustEnded(r) == runs[r].pc # "done" /\ runs'[r].pc = "done"

\* the cancel flag was never set during the activation whose record is rec
NeverCancelled(rec) == rec.cancelCalls = -1

\* n = ceil(d / WindowMs)
IsCeilOfWindows(n, d) ==
    IF d = 0 THEN n = 0 ELSE (n - 1) * WindowMs < d /\ d <= n * WindowMs

\* a time in milliseconds written HH:MM:SS.mmm, to the millisecond
Timestamp(ms) == ISOTimeOfDay(ms)

C1_NoCallAfterCancel ==
    \A r \in RunIds :
        runs[r].cancelCalls # -1 =>
            /\ runs[r].calls = runs[r].cancelCalls
            /\ runs[r].pc = "done" => runs[r].outcome = "Cancelled"
            /\ (runs[r].pc = "done" /\ ~runs[r].failed) =>
                    Len(runs[r].responses) = runs[r].calls

C1_CancelLeavesCallInFlight ==
    (~isGenerationCancelled /\ isGenerationCancelled') =>
        \A r \in RunIds :
            /\ runs'[r].pc = runs[r].pc
            /\ runs'[r].i = runs[r].i
            /\ runs'[r].vttContent = runs[r].vttContent

\* C1: once the cancel flag is set during a run (during the decode or while a
\* remote call is in flight), the run starts no further remote call and ends
\* in Cancelled; the click itself leaves the call in flight, and the call's
\* response is still received.
C1_CancelAtChunkBoundary ==
    /\ []C1_NoCallAfterCancel
    /\ [][C1_CancelLeavesCallInFlight]_vars

\* a run of 3 chunks cancelled while the call for chunk 2 was in flight: 2
\* calls, both returned, chunk 3 skipped
C1_Witness ==
    \E r \in RunIds :
        /\ runs[r].pc = "done"
        /\ runs[r].outcome = "Cancelled"
        /\ runs[r].cancelCalls = 2
        /\ runs[r].calls = 2
        /\ Len(runs[r].responses) = 2
        /\ runs[r].skipped
        /\ chunkCount(runs[r].audioDuration) = 3

\* C2: when a run ends in Cancelled, the cues of the chunks processed so far
\* are the caption document in generatedVttContent.
C2_CancelledSurfacesCues ==
    [][\A r \in RunIds :
          (JustEnded(r) /\ runs'[r].outcome = "Cancelled" /\ ~runs'[r].failed
             /\ runs'[r].vttContent # <<>>) =>
                generatedVttContent' = Vtt(runs'[r].vttContent)]_vars

C3_FailedRunStops ==
    \A r \in RunIds :
        runs[r].failed =>
            /\ runs[r].pc = "done"
            /\ runs[r].calls <= Len(runs[r].responses) + 1

C3_FailedRunSurfacesNothing ==
    \A r \in RunIds :
        (JustEnded(r) /\ runs'[r].failed) =>
            /\ generatedVttContent'.null
            /\ dom'.tracks = <<>>
            /\ dom'.postGenerationControlsHidden

\* C3: a run whose remote call (or decode) fails has ended, with the failing
\* call the last one it started, and surfaces no caption document: the cues
\* accumulated before the failure are dropped, generatedVttContent stays
\* null, no track is attached and the download controls stay hidden.
C3_FailureDiscardsCues ==
    /\ []C3_FailedRunStops
    /\ [][C3_FailedRunSurfacesNothing]_vars

\* a call failed on chunk 2 of 3 after chunk 1 had produced a cue
C3_Witness ==
    \E r \in RunIds :
        /\ runs[r].failed
        /\ runs[r].calls = 2
        /\ runs[r].vttContent # <<>>
        /\ chunkCount(runs[r].audioDuration) = 3
        /\ statusText.msg = "errorOrCancelled"

\* C4: a run in which an await throws ends Failed, with the failure status,
\* whatever the cancel flag is.
C4_FailureEndsFailed ==
    [][\A r \in RunIds :
          (JustEnded(r) /\ runs'[r].failed) =>
              /\ runs'[r].outcome = "Failed"
              /\ statusText'.msg = "errorOrCancelled"]_vars

\* C5: at most one remote call is in flight, and the k-th call a run starts
\* is for chunk k, started when the k-1 calls before it have returned.
C5_SequentialDispatch ==
    /\ Cardinality({r \in RunIds : runs[r].pc = "call"}) <= 1
    /\ \A r \in RunIds :
          runs[r].pc = "call" =>
              /\ currentChunk(runs[r].i) = runs[r].calls
              /\ Len(runs[r].responses) = runs[r].calls - 1

\* the call for the last of 3 chunks is in flight
C5_Witness ==
    \E r \in RunIds :
        /\ runs[r].pc = "call"
        /\ runs[r].calls = 3
        /\ Len(runs[r].responses) = 2

\* C6: at most one run is active, and while one is, no click reaches the
\* generate button or the reset button and no change reaches the upload
\* input.
C6_SingleActiveRun ==
    /\ Cardinality({r \in RunIds : Active(r)}) <= 1
    /\ (\E r \in RunIds : Active(r)) =>
          /\ ~CanClickGenerate
          /\ ~CanClickReset
          /\ ~CanChangeUpload

\* a run suspended in a remote call after a cancel click: still active
C6_Witness ==
    \E r \in RunIds :
        /\ runs[r].pc = "call"
        /\ isGenerationCancelled
        /\ currentFile = runs[r].file

\* C7: the chunk ranges of a run start at 0, each starts where the one
\* before ended, is longer than 0 and no longer than the window, and has an
\* index in 1..ceil(D/W); a run that went through all of them made
\* ceil(D/W) calls (none for D = 0) and the last range ends at D.
C7_ChunkRangesPartition ==
    \A r \in RunIds :
        /\ runs[r].pc = "call" =>
              LET start == runs[r].i * MsPerSecond
                  end == endTime(runs[r].i, runs[r].audioDuration)
                  k == currentChunk(runs[r].i)
              IN  /\ start = runs[r].prevEnd
                  /\ runs[r].calls = 1 => start = 0
                  /\ start < end
                  /\ end - start <= WindowMs
                  /\ end <= runs[r].audioDuration
                  /\ k >= 1
                  /\ \E n \in k..(MaxChunks + 1) : IsCeilOfWindows(n, runs[r].audioDuration)
        /\ (runs[r].pc = "done" /\ ~runs[r].failed /\ ~runs[r].skipped) =>
              /\ runs[r].prevEnd = runs[r].audioDuration
              /\ IsCeilOfWindows(runs[r].calls, runs[r].audioDuration)

\* 65.4 s of audio went through its 3 chunks
C7_Witness ==
    \E r \in RunIds :
        /\ runs[r].pc = "done"
        /\ ~runs[r].failed /\ ~runs[r].skipped
        /\ runs[r].audioDuration = 65400
        /\ runs[r].calls = 3

\* the cue of chunk k of an audio of d milliseconds with the text returned
ExpectedCue(k, d, text) ==
    [ start |-> Timestamp((k - 1) * WindowMs),
      end |-> Timestamp(Min(k * WindowMs, d)),
      text |-> subtitleText(text) ]

\* C8: a run without cancellation or failure whose responses all hold text
\* leaves ceil(D/30) cues, cue k from 30(k-1) to min(30k, D) seconds with the
\* text of response k.
C8_OneCuePerChunk ==
    \A r \in RunIds :
        (/\ runs[r].pc = "done"
         /\ ~runs[r].failed /\ ~runs[r].skipped /\ NeverCancelled(runs[r])
         /\ \A k \in 1..Len(runs[r].responses) :
                subtitleText(runs[r].responses[k]) # <<>>) =>
            /\ IsCeilOfWindows(Len(runs[r].vttContent), runs[r].audioDuration)
            /\ \A k \in 1..Len(runs[r].vttContent) :
                  runs[r].vttContent[k] =
                      ExpectedCue(k, runs[r].audioDuration, runs[r].responses[k])

C9_CompletedOnlyAfterAllChunks ==
    \A r \in RunIds :
        runs[r].outcome = "Completed" =>
            /\ ~runs[r].failed
            /\ ~runs[r].skipped
            /\ Len(runs[r].responses) = runs[r].calls
            /\ IsCeilOfWindows(runs[r].calls, runs[r].audioDuration)

C9_AllChunksThenCompleted ==
    \A r \in RunIds :
        (/\ JustEnded(r)
         /\ ~runs'[r].failed /\ ~runs'[r].skipped /\ NeverCancelled(runs'[r])
         /\ runs'[r].vttContent # <<>>) =>
            /\ runs'[r].outcome = "Completed"
            /\ statusText'.msg = "completed"
            /\ generatedVttContent' = Vtt(runs'[r].vttContent)
            /\ dom'.tracks = <<Vtt(runs'[r].vttContent)>>
            /\ ~dom'.postGenerationControlsHidden
            /\ dom'.generationControlsHidden

\* C9: a run that went through all its chunks without cancellation or
\* failure and holds at least one cue ends Completed, with the document in
\* generatedVttContent, the track attached and the post-generation controls
\* shown; a run in which a call failed or a chunk was skipped is never
\* Completed.
C9_Completion ==
    /\ []C9_CompletedOnlyAfterAllChunks
    /\ [][C9_AllChunksThenCompleted]_vars

\* a completed run of 3 chunks, one of them without text
C9_Witness ==
    \E r \in RunIds :
        /\ runs[r].outcome = "Completed"
        /\ runs[r].calls = 3
        /\ Len(runs[r].vttContent) = 2
        /\ generatedVttContent = Vtt(runs[r].vttContent)
        /\ ~dom.postGenerationControlsHidden

\* what C10 says of the end of a run
NoCaptionsOutcome(r) ==
    /\ runs'[r].outcome = "Empty"
    /\ statusText'.msg = "noCaptions"
    /\ generatedVttContent'.null
    /\ dom'.tracks = <<>>
    /\ dom'.postGenerationControlsHidden

\* C10 as stated: every run whose chunks were all processed and gave no text
\* ends with the no-captions outcome.
C10_Original ==
    [][\A r \in RunIds :
          (/\ JustEnded(r)
           /\ ~runs'[r].failed /\ ~runs'[r].skipped
           /\ runs'[r].vttContent = <<>>) => NoCaptionsOutcome(r)]_vars

\* C10, amended: a run whose chunks were all processed and gave no text, and
\* during which the cancel flag was not set, ends with the no-captions
\* outcome, which surfaces no caption document; a run in which an await
\* threw never ends with the no-captions status.
C10_NoCaptionsOutcome ==
    [][\A r \in RunIds :
          /\ (/\ JustEnded(r)
              /\ ~runs'[r].failed /\ ~runs'[r].skipped /\ NeverCancelled(runs'[r])
              /\ runs'[r].vttContent = <<>>) => NoCaptionsOutcome(r)
          /\ (JustEnded(r) /\ runs'[r].failed) =>
                statusText'.msg # "noCaptions"]_vars

\* a run of 2 chunks, both answered without text, has ended
C10_Witness ==
    \E r \in RunIds :
        /\ runs[r].outcome = "Empty"
        /\ runs[r].calls = 2
        /\ Len(runs[r].responses) = 2
        /\ statusText.msg = "noCaptions"
        /\ generatedVttContent.null

\* the state of the page but for the name of the last file downloaded, which
\* is no part of the page
PageState ==
    <<isGenerationCancelled, generatedVttContent, currentFile,
      [dom EXCEPT !.download = <<>>], statusText>>

InitialPageState == <<FALSE, NullVtt, NoFile, InitialDom, Status("")>>

\* the page when the first run of a freshly loaded page has just started on
\* file
FirstRunPageState(file) ==
    <<FALSE, NullVtt, file,
      StartDom([InitialDom EXCEPT !.videoSrc = TRUE,
                                  !.uploadContainerHidden = TRUE,
                                  !.videoContainerHidden = FALSE,
                                  !.generateButtonDisabled = FALSE]),
      Status("decoding")>>

C11_ResetStep == ~currentFile.null /\ currentFile'.null

C11_RunStarts(r) == ~Active(r) /\ runs'[r].pc = "decode"

\* C11: resetApp after a completed run leaves the page in its initial state
\* (caption document, file, controls, status, cancel flag), and every run,
\* the first or a later one, starts from the same page state and the same
\* locals for the same file, so that it goes through the same states.
C11_ResetThenSameCycle ==
    /\ [][C11_ResetStep => PageState' = InitialPageState]_vars
    /\ [][\A r \in RunIds :
             C11_RunStarts(r) =>
                /\ PageState' = FirstRunPageState(currentFile)
                /\ runs'[r] = [IdleRun EXCEPT !.pc = "decode", !.file = currentFile]]_vars

\* the page after a completed run, a download and a reset
C11_Witness ==
    /\ \E r \in RunIds : runs[r].outcome = "Completed"
    /\ dom.download # <<>>
    /\ currentFile.null
    /\ generatedVttContent.null
    /\ statusText = Status("")

\* the status each outcome is reported with
OutcomeStatus(outcome) ==
    CASE outcome = "Completed" -> "completed"
      [] outcome = "Cancelled" -> "cancelled"
      [] outcome = "Empty" -> "noCaptions"
      [] outcome = "Failed" -> "errorOrCancelled"
      [] OTHER -> "none"

\* the user can go on: generate again or upload, or download and reset
CanProceed ==
    \/ /\ CanClickGenerate
       /\ CanChangeUpload
       /\ dom.cancelButtonHidden
    \/ /\ CanClickDownload
       /\ CanClickReset

C12_EndsInOneOutcome ==
    \A r \in RunIds :
        /\ JustEnded(r) =>
              /\ runs'[r].outcome \in {"Completed", "Cancelled", "Failed", "Empty"}
              /\ statusText'.msg = OutcomeStatus(runs'[r].outcome)
              /\ CanProceed'
        /\ (runs[r].pc = "done" /\ runs'[r].pc = "done") => runs'[r] = runs[r]

\* C12: when every decode and remote call eventually returns or throws,
\* every started run ends; it ends in one of the four outcomes, which it
\* keeps, with that outcome's status set and with the page in a state where
\* the user can proceed (generate button reachable, upload enabled and
\* cancel hidden, or the post-generation controls shown).
C12_EveryRunEnds ==
    /\ [][C12_EndsInOneOutcome]_vars
    /\ \A r \in RunIds : Active(r) ~> (runs[r].pc = "done")

\* a run has ended Failed after two calls and the page is back at the
\* generate button
C12_Witness ==
    \E r \in RunIds :
        /\ runs[r].pc = "done"
        /\ runs[r].outcome = "Failed"
        /\ runs[r].calls = 2
        /\ statusText.msg = "errorOrCancelled"
        /\ CanClickGenerate /\ CanChangeUpload

\* the places of the dots of a name that start an extension: a dot that is
\* the first character starts none
ExtensionDots(name) == {k \in 2..Len(name) : name[k] = "."}

\* the name with its final extension removed
BaseName(name) ==
    IF ExtensionDots(name) = {} THEN name
    ELSE SubSeq(name, 1,
                (CHOOSE k \in ExtensionDots(name) :
                    \A j \in ExtensionDots(name) : j <= k) - 1)

\* C13: a download is named after the source file: its name with the final
\* extension removed, followed by ".vtt".
C13_DownloadNamedAfterSource ==
    [][dom'.download # dom.download =>
          dom'.download = BaseName(currentFile.name) \o <<".", "v", "t", "t">>]_vars

\* an encoded sample: the argument, the quantized value and the stored one
Encoded == evaluation.fn = "encodeSample" /\ evaluation.done
SampleNum == evaluation.arg.num
SampleDen == evaluation.arg.den
Quantized == evaluation.result[1]
Stored == evaluation.result[2]

\* C14: samples are clamped to [-1, 1] before quantization: 1.0 encodes to
\* 32767 and -1.0 to -32768, a sample above 1 encodes as 1.0 does and a sample
\* below -1 as -1.0 does, and every encoded value is a signed 16-bit integer
\* that the 16-bit store keeps as it is.
C14_ClampedQuantization ==
    Encoded =>
        /\ SampleNum = SampleDen => Stored = 32767
        /\ SampleNum = -SampleDen => Stored = -32768
        /\ SampleNum > SampleDen =>
              /\ Stored = 32767
              /\ evaluation.result = <<QuantizeSample(Finite(1, 1)),
                                       SetInt16(QuantizeSample(Finite(1, 1)))>>
        /\ SampleNum < -SampleDen =>
              /\ Stored = -32768
              /\ evaluation.result = <<QuantizeSample(Finite(-1, 1)),
                                       SetInt16(QuantizeSample(Finite(-1, 1)))>>
        /\ Quantized \in (-32768)..32767
        /\ Stored = Quantized

\* the sample 1.5 has been encoded, to 32767
C14_Witness ==
    /\ Encoded
    /\ evaluation.arg = Finite(3, 2)
    /\ Stored = 32767

\* a formatted remaining time
Formatted == evaluation.fn = "formatRemainingTime" /\ evaluation.done

\* a count of minutes or seconds in at least two decimal digits
TwoDigits(n) ==
    IF n < 10 THEN <<"0">> \o DecimalString(n) ELSE DecimalString(n)

\* C15: formatRemainingTime returns "--:--" exactly when its argument is NaN,
\* negative or infinite, and for a whole number s >= 0 of seconds it returns
\* floor(s/60) and s mod 60, zero-padded and joined by a colon.
C15_RemainingTimeFormat ==
    Formatted =>
        LET x == evaluation.arg
            dashes == <<"-", "-", ":", "-", "-">>
        IN  /\ evaluation.result = dashes
                <=> (x.kind \in {"NaN", "Infinity", "-Infinity"} \/ x.num < 0)
            /\ (x.kind = "finite" /\ x.num >= 0 /\ x.num % x.den = 0) =>
                  LET s == x.num \div x.den
                  IN  evaluation.result =
                          TwoDigits(s \div 60) \o <<":">> \o TwoDigits(s % 60)

\* 125 seconds have been formatted, as 02:05
C15_Witness ==
    /\ Formatted
    /\ evaluation.arg = Finite(125, 1)
    /\ evaluation.result = <<"0", "2", ":", "0", "5">>

\* C17: after clamping, a negative sample is scaled by 32768 and a
\* non-negative one by 32767, the product truncated to an integer, for every
\* sample in [-1, 1].
C17_ScaleBySign ==
    (Encoded /\ SampleNum \in (-SampleDen)..SampleDen) =>
        Quantized = Truncate(SampleNum * (IF SampleNum < 0 THEN 32768 ELSE 32767),
                             SampleDen)

\* the decimal digit c as a number
DigitValue(c) == CHOOSE n \in 0..9 : Digits[n + 1] = c

\* the milliseconds a timestamp HH:MM:SS.mmm stands for
TimestampMs(ts) ==
    LET v(k) == DigitValue(ts[k])
    IN  (10 * v(1) + v(2)) * 3600000 + (10 * v(4) + v(5)) * 60000
        + (10 * v(7) + v(8)) * 1000 + 100 * v(10) + 10 * v(11) + v(12)

\* a character that ends a line
IsLineBreak(c) == c \in {"\n", "\r"}

\* C16: at every point of a run the cues accumulated so far have strictly
\* increasing start times, each cue ends no later than the next one starts,
\* every cue text is non-empty and holds no line break, and there are no more
\* cues than remote calls that have returned.
C16_CuesWellFormed ==
    \A r \in RunIds :
        LET cues == runs[r].vttContent
        IN  /\ \A k \in 1..(Len(cues) - 1) :
                  /\ TimestampMs(cues[k].start) < TimestampMs(cues[k + 1].start)
                  /\ TimestampMs(cues[k].end) <= TimestampMs(cues[k + 1].start)
            /\ \A k \in 1..Len(cues) :
                  /\ cues[k].text # <<>>
                  /\ \A j \in 1..Len(cues[k].text) : ~IsLineBreak(cues[k].text[j])
            /\ Len(cues) <= Len(runs[r].responses)

\* ts reads HH:MM:SS.mmm: twelve characters, digits around two colons and a
\* point
IsTimestampFormat(ts) ==
    /\ Len(ts) = 12
    /\ ts[3] = ":" /\ ts[6] = ":" /\ ts[9] = "."
    /\ \A k \in {1, 2, 4, 5, 7, 8, 10, 11, 12} :
          \E n \in 0..9 : Digits[n + 1] = ts[k]

\* C18: the cue appended for a chunk carries the chunk's start and end as
\* HH:MM:SS.mmm, zero-padded with three fractional digits, equal to the chunk's
\* start and end to the millisecond, also when the end is the fractional
\* duration of the audio.
C18_CueTimestampsExact ==
    [][\A r \in RunIds :
          Len(runs'[r].vttContent) = Len(runs[r].vttContent) + 1 =>
              LET cue == runs'[r].vttContent[Len(runs'[r].vttContent)]
                  startMs == runs[r].i * MsPerSecond
                  endMs == Min(startMs + WindowMs, runs[r].audioDuration)
              IN  /\ IsTimestampFormat(cue.start)
                  /\ IsTimestampFormat(cue.end)
                  /\ TimestampMs(cue.start) = startMs
                  /\ TimestampMs(cue.end) = endMs]_vars

\* the seconds field of a remaining time MM:SS, as a number
SecondsField(t) == 10 * DigitValue(t[Len(t) - 1]) + DigitValue(t[Len(t)])

\* C20: a remaining time shown during a run, computed from the elapsed time
\* per chunk, has a seconds field from 00 to 59.
C20_SecondsBelowSixty ==
    (statusText.etr # <<>> /\ statusText.etr # <<"-", "-", ":", "-", "-">>) =>
        SecondsField(statusText.etr) \in 0..59

\* C19: generatedVttContent is non-null only in the post-generation state
\* after a Completed run, whose cues (at least one) it holds, with a current
\* file; it is null whenever a run is active or the generate button can be
\* clicked.
C19_NoStaleCaptions ==
    /\ ~generatedVttContent.null =>
          /\ ~dom.postGenerationControlsHidden
          /\ \E r \in RunIds :
                /\ runs[r].outcome = "Completed"
                /\ runs[r].file = currentFile
                /\ generatedVttContent = Vtt(runs[r].vttContent)
          /\ Len(generatedVttContent.cues) >= 1
          /\ ~currentFile.null
    /\ ((\E r \in RunIds : Active(r)) \/ CanClickGenerate) =>
          generatedVttContent.null

\* the captions of a Completed run have been downloaded
C19_Witness ==
    /\ ~generatedVttContent.null
    /\ dom.download # <<>>
    /\ \E r \in RunIds : runs[r].outcome = "Completed"

====
